---- MODULE Spec2Model ----
(***************************************************************************)
(* Model of rhydrator: the ProfileBulder of layoutviz.py (frame table,     *)
(* scope stack, spans, render) and the field -> column -> page index of    *)
(* rhydrator.py (get_field_to_page_map and its three nested stages).       *)
(*                                                                         *)
(* Python lists are sequences; list and frame indices keep Python's        *)
(* 0-based values, so the frame with id k is frames[k + 1].                *)
(***************************************************************************)
EXTENDS Integers, Sequences, FiniteSets, TLC

VARIABLES frames, spans, stack, shared_frames, profile,
          pc, field_descriptions, column_descriptions,
          alias_column_descriptions, pagelist_envelopes,
          nodes, field_tree, field_id_to_node, stage, error, returned,
          heap, alone, rendered, calls, field_table,
          lpc, fieldDescriptions, columnDescriptions, pagelistEnvelopes,
          columnPages, seen_pages, page2column, fieldColumns, topLevelFields,
          nextRoot, callstack, descended, builder, out

\* frames, spans, stack, shared_frames: the four fields of a ProfileBulder;
\* profile: what the latest call returned when that call was render.
\* pc: the position in get_field_to_page_map; stage: the nested function that
\* ran last; field_descriptions .. pagelist_envelopes: the inputs;
\* nodes: the node dicts by field id (one object per field, shared by
\* field_tree and field_id_to_node); field_tree, field_id_to_node: the keys of
\* the two dicts in insertion order; error: the exception raised;
\* returned: what the caller got.
\* heap: the list and dict objects of two further ProfileBulder instances, by
\* object identity; alone: per instance, the builder that received that
\* instance's calls and no other; rendered: per instance, what its latest
\* render returned; calls: the number of calls made on the two instances.
\* field_table: the rows of the table "field" of the relational model.
\* lpc: the position in layoutviz.read; fieldDescriptions, columnDescriptions,
\* pagelistEnvelopes: the schema and the page lists of the RNTuple it reads;
\* columnPages, seen_pages, page2column, fieldColumns, topLevelFields: the
\* locals of read with these names; nextRoot: the position of the loop over
\* topLevelFields; callstack: the activations of descend, innermost last;
\* descended: the field ids descend was called with, in call order;
\* builder: the ProfileBulder of read; out: what its render returned.
vars == <<frames, spans, stack, shared_frames, profile,
          pc, field_descriptions, column_descriptions,
          alias_column_descriptions, pagelist_envelopes,
          nodes, field_tree, field_id_to_node, stage, error, returned,
          heap, alone, rendered, calls, field_table,
          lpc, fieldDescriptions, columnDescriptions, pagelistEnvelopes,
          columnPages, seen_pages, page2column, fieldColumns, topLevelFields,
          nextRoot, callstack, descended, builder, out>>

builderVars == <<frames, spans, stack, shared_frames, profile>>

indexVars == <<pc, field_descriptions, column_descriptions,
               alias_column_descriptions, pagelist_envelopes,
               nodes, field_tree, field_id_to_node, stage, error, returned>>

instanceVars == <<heap, alone, rendered, calls>>

tableVars == <<field_table>>

layoutVars == <<lpc, fieldDescriptions, columnDescriptions, pagelistEnvelopes,
                columnPages, seen_pages, page2column, fieldColumns, topLevelFields,
                nextRoot, callstack, descended, builder, out>>

(***************************************************************************)
(* Bounds of the model.                                                    *)
(***************************************************************************)
MaxFrames == 2
MaxDepth == 2
MaxSpans == 2
MaxOffset == 1
MaxSize == 2
MaxFields == 3
MaxColumns == 2
MaxAliases == 1
MaxEnvelopes == 2
MaxClusters == 2
MaxCalls == 4
MaxRows == 3
MaxWalkColumns == 1
MaxWalkPages == 1
MaxLayoutFields == 2
MaxLayoutPages == 1

\* labels of shared frames and spans, labels of push_frame's frames, and the
\* secondary labels ("None" is Python's None)
Names == {"A", "B"}
ScopeNames == {"F"}
Files == {"None"}
Offsets == 0 .. MaxOffset
Sizes == -1 .. MaxSize
EndValues == {0, MaxOffset + MaxSize}

Min(S) == CHOOSE x \in S : \A y \in S : x <= y
Last(s) == s[Len(s)]
Front(s) == SubSeq(s, 1, Len(s) - 1)
\* Python's s[k:] and s[:k] for 0 <= k
From(s, k) == IF k >= Len(s) THEN << >> ELSE SubSeq(s, k + 1, Len(s))
Upto(s, k) == IF k >= Len(s) THEN s ELSE SubSeq(s, 1, k)
RECURSIVE Reverse(_)
Reverse(s) == IF s = << >> THEN << >> ELSE Append(Reverse(Tail(s)), Head(s))

(***************************************************************************)
(* ProfileBulder                                                           *)
(***************************************************************************)
Frame(name, file) == [name |-> name, file |-> file]

NoProfile == [status |-> "none", events |-> << >>, endValue |-> 0]

\* (mutant) shared_frame_id without the lookup: every call makes a new frame
SharedFrameIdFresh(fr, sh, name, file) ==
    [frames |-> Append(fr, Frame(name, file)),
     shared_frames |-> [k \in DOMAIN sh \cup {<<name, file>>} |->
                          IF k = <<name, file>> THEN Len(fr) ELSE sh[k]],
     id |-> Len(fr)]

\* shared_frame_id: get or create the frame id of (name, file); the result is
\* the id with the frame table and the interning table after the call.
SharedFrameId(fr, sh, name, file) ==
    IF <<name, file>> \notin DOMAIN sh
    THEN [frames |-> Append(fr, Frame(name, file)),
          shared_frames |-> [k \in DOMAIN sh \cup {<<name, file>>} |->
                               IF k = <<name, file>> THEN Len(fr) ELSE sh[k]],
          id |-> Len(fr)]
    ELSE [frames |-> fr, shared_frames |-> sh, id |-> sh[<<name, file>>]]

\* whether a call of shared_frame_id(name, file) stays inside the model's bounds
SharedFits(name, file) ==
    <<name, file>> \in DOMAIN shared_frames \/ Len(frames) < MaxFrames

push_frame(name, file) ==
    /\ Len(frames) < MaxFrames
    /\ Len(stack) < MaxDepth
    /\ frames' = Append(frames, Frame(name, file))
    /\ stack' = Append(stack, Len(frames') - 1)
    /\ profile' = NoProfile
    /\ UNCHANGED <<spans, shared_frames>>
    /\ UNCHANGED indexVars
    /\ UNCHANGED instanceVars
    /\ UNCHANGED tableVars
    /\ UNCHANGED layoutVars

\* list.pop() of an empty list raises IndexError and changes nothing
pop_frame ==
    /\ stack' = IF stack # << >> THEN Front(stack) ELSE stack
    /\ profile' = NoProfile
    /\ UNCHANGED <<frames, spans, shared_frames>>
    /\ UNCHANGED indexVars
    /\ UNCHANGED instanceVars
    /\ UNCHANGED tableVars
    /\ UNCHANGED layoutVars

push_shared_frame(name, file) ==
    /\ SharedFits(name, file)
    /\ Len(stack) < MaxDepth
    /\ LET r == SharedFrameId(frames, shared_frames, name, file) IN
         /\ frames' = r.frames
         /\ shared_frames' = r.shared_frames
         /\ stack' = Append(stack, r.id)
    /\ profile' = NoProfile
    /\ UNCHANGED spans
    /\ UNCHANGED indexVars
    /\ UNCHANGED instanceVars
    /\ UNCHANGED tableVars
    /\ UNCHANGED layoutVars

\* (mutant) the span keeps the live list itself: what it shows is the scope
\* stack as the call leaves it
StackAlias(pushed, left) == left

\* self.stack.copy(): the span keeps the contents the list has while the leaf
\* is pushed; left is the list as add_span's closing pop leaves it
StackCopy(pushed, left) == pushed

add_span(name, offset, size) ==
    /\ SharedFits(name, "None")
    /\ Len(spans) < MaxSpans
    /\ LET r == SharedFrameId(frames, shared_frames, name, "None")
           pushed == Append(stack, r.id) IN
         /\ frames' = r.frames
         /\ shared_frames' = r.shared_frames
         /\ spans' = Append(spans, [offset |-> offset, size |-> size,
                                    stack |-> StackCopy(pushed, Front(pushed))])
         /\ stack' = Front(pushed)
    /\ profile' = NoProfile
    /\ UNCHANGED indexVars
    /\ UNCHANGED instanceVars
    /\ UNCHANGED tableVars
    /\ UNCHANGED layoutVars

\* (mutant) the spans taken in the order they were added
InsertionOrder(sp) == sp

\* sorted(self.spans, key=lambda s: s["offset"]): a stable sort by offset
RECURSIVE SortedByOffset(_)
SortedByOffset(sp) ==
    IF sp = << >> THEN << >>
    ELSE LET rest == SortedByOffset(Front(sp))
             x == Last(sp)
             k == Cardinality({i \in 1 .. Len(rest) : rest[i].offset <= x.offset})
         IN SubSeq(rest, 1, k) \o <<x>> \o SubSeq(rest, k + 1, Len(rest))

Event(type, frame, at) == [type |-> type, frame |-> frame, at |-> at]
OpenEvents(fs, at) == [i \in 1 .. Len(fs) |-> Event("O", fs[i], at)]
\* (mutant) Close events placed one byte behind the end of the span
CloseEventsBehind(fs, at) == [i \in 1 .. Len(fs) |-> Event("C", fs[i], at + 1)]
CloseEvents(fs, at) == [i \in 1 .. Len(fs) |-> Event("C", fs[i], at)]

\* (mutant) an overlap test that compares the end of the span
OverlapsByEnd(span, last_span_end) == span.offset + span.size < last_span_end

\* (mutant) an overlap test that also rejects a span starting after the cursor
OverlapsOrGap(span, last_span_end) == span.offset # last_span_end

\* the overlap test of render
Overlaps(span, last_span_end) == span.offset < last_span_end

\* (mutant) icommon without the rule that the last open frame is always closed
IcommonKeepLeaf(open, sstack) ==
    LET n == IF Len(open) < Len(sstack) THEN Len(open) ELSE Len(sstack)
        common == {i \in 0 .. n - 1 : open[i + 1] # sstack[i + 1]}
    IN IF common # {} THEN Min(common) ELSE Len(open)

\* icommon: the first index where the open stack and the span's stack differ,
\* or the index of the last open frame when zip() finds no difference
Icommon(open, sstack) ==
    LET n == IF Len(open) < Len(sstack) THEN Len(open) ELSE Len(sstack)
        common == {i \in 0 .. n - 1 : open[i + 1] # sstack[i + 1]}
    IN IF common # {} THEN Min(common) ELSE Len(open) - 1

RenderInit ==
    [stack |-> << >>, events |-> << >>, last_span_end |-> 0, gaps |-> << >>,
     err |-> FALSE]

\* one iteration of render's loop over the sorted spans
RenderSpan(st, span) ==
    IF Overlaps(span, st.last_span_end) THEN [st EXCEPT !.err = TRUE]
    ELSE LET gaps == IF span.offset > st.last_span_end
                     THEN Append(st.gaps, <<st.last_span_end, span.offset - st.last_span_end>>)
                     ELSE st.gaps
             icommon == Icommon(st.stack, span.stack)
             kept == IF st.stack # << >> THEN Upto(st.stack, icommon) ELSE << >>
             closing == IF st.stack # << >> THEN From(st.stack, icommon) ELSE << >>
             opening == IF st.stack # << >> THEN From(span.stack, icommon) ELSE span.stack
         IN [stack |-> kept \o opening,
             events |-> st.events \o CloseEvents(Reverse(closing), st.last_span_end)
                                  \o OpenEvents(opening, span.offset),
             last_span_end |-> span.offset + span.size,
             gaps |-> gaps,
             err |-> FALSE]

RECURSIVE RenderLoop(_, _)
RenderLoop(st, ss) ==
    IF ss = << >> \/ st.err THEN st
    ELSE RenderLoop(RenderSpan(st, Head(ss)), Tail(ss))

\* the event list of render before its two assertions
RawEvents(sp) ==
    LET st == RenderLoop(RenderInit, SortedByOffset(sp))
    IN st.events \o CloseEvents(Reverse(st.stack), st.last_span_end)

\* (mutant) the order assertion left out
EventsInOrderUnchecked(events) == TRUE

\* assert event["at"] >= offset, with offset the running maximum from 0
EventsInOrder(events) ==
    \A i \in 1 .. Len(events) :
        /\ events[i].at >= 0
        /\ \A j \in 1 .. i - 1 : events[i].at >= events[j].at

Opened(events) == Cardinality({i \in 1 .. Len(events) : events[i].type = "O"})
Closed(events) == Cardinality({i \in 1 .. Len(events) : events[i].type = "C"})

\* (mutant) a failing render that hands back the events built so far
FailureWithEvents(status) ==
    [status |-> status, events |-> <<Event("O", 0, 0)>>, endValue |-> 0]

\* render raises: the caller gets no profile
Failure(status) == [NoProfile EXCEPT !.status = status]

\* (mutant) render without its first assertion
RenderAnyStack(stk, sp, endValue) ==
    IF RenderLoop(RenderInit, SortedByOffset(sp)).err THEN Failure("OverlapViolation")
    ELSE IF ~EventsInOrder(RawEvents(sp)) THEN Failure("EventsOutOfOrder")
    ELSE IF Opened(RawEvents(sp)) # Closed(RawEvents(sp)) THEN Failure("UnmatchedEvents")
    ELSE [status |-> "ok", events |-> RawEvents(sp), endValue |-> endValue]

\* render(endValue): the profile, or the failure that aborts it
Render(stk, sp, endValue) ==
    IF stk # << >> THEN Failure("ImbalancedStack")
    ELSE IF RenderLoop(RenderInit, SortedByOffset(sp)).err THEN Failure("OverlapViolation")
    ELSE IF ~EventsInOrder(RawEvents(sp)) THEN Failure("EventsOutOfOrder")
    ELSE IF Opened(RawEvents(sp)) # Closed(RawEvents(sp)) THEN Failure("UnmatchedEvents")
    ELSE [status |-> "ok", events |-> RawEvents(sp), endValue |-> endValue]

render(endValue) ==
    /\ profile' = Render(stack, spans, endValue)
    /\ UNCHANGED <<frames, spans, stack, shared_frames>>
    /\ UNCHANGED indexVars
    /\ UNCHANGED instanceVars
    /\ UNCHANGED tableVars
    /\ UNCHANGED layoutVars

BuilderInit ==
    /\ frames = << >>
    /\ spans = << >>
    /\ stack = << >>
    /\ shared_frames = << >>
    /\ profile = NoProfile

ProfileNext ==
    \/ \E name \in ScopeNames, file \in Files : push_frame(name, file)
    \/ pop_frame
    \/ \E name \in Names, file \in Files : push_shared_frame(name, file)
    \/ \E name \in Names, offset \in Offsets, size \in Sizes : add_span(name, offset, size)
    \/ \E endValue \in EndValues : render(endValue)

(***************************************************************************)
(* Two ProfileBulder instances. The fields of an instance are references   *)
(* to list and dict objects; a method reads and updates the objects its    *)
(* own fields refer to.                                                    *)
(***************************************************************************)
Instances == {"A", "B"}
Fields == {"frames", "spans", "stack", "shared_frames"}

\* (mutant) one default object per field, made once and used by every instance
DefaultFactoryShared(inst, fld) == <<"class", fld>>

\* field(default_factory=list), field(default_factory=dict): the identity of
\* the object made for field fld when instance inst is constructed
DefaultFactory(inst, fld) == <<inst, fld>>

\* the object each field of instance inst refers to
Self(inst) == [fld \in Fields |-> DefaultFactory(inst, fld)]

Objects == {Self(inst)[fld] : inst \in Instances, fld \in Fields}

EmptyBuilder ==
    [frames |-> << >>, spans |-> << >>, stack |-> << >>, shared_frames |-> << >>]

\* the four fields of instance inst, read through its references
View(inst) == [fld \in Fields |-> heap[Self(inst)[fld]]]

\* the heap after instance inst's objects were updated to the fields of b
Store(inst, b) ==
    [o \in DOMAIN heap |->
       IF \E fld \in Fields : Self(inst)[fld] = o
       THEN b[CHOOSE fld \in Fields : Self(inst)[fld] = o]
       ELSE heap[o]]

\* the methods as functions of the fields of self
PushFrame(b, name, file) ==
    [b EXCEPT !.frames = Append(@, Frame(name, file)),
              !.stack = Append(@, Len(b.frames))]

PopFrame(b) == [b EXCEPT !.stack = IF @ # << >> THEN Front(@) ELSE @]

PushSharedFrame(b, name, file) ==
    LET r == SharedFrameId(b.frames, b.shared_frames, name, file)
    IN [b EXCEPT !.frames = r.frames,
                 !.shared_frames = r.shared_frames,
                 !.stack = Append(@, r.id)]

AddSpan(b, name, offset, size) ==
    LET r == SharedFrameId(b.frames, b.shared_frames, name, "None")
        pushed == Append(b.stack, r.id)
    IN [frames |-> r.frames,
        shared_frames |-> r.shared_frames,
        spans |-> Append(b.spans, [offset |-> offset, size |-> size,
                                   stack |-> StackCopy(pushed, Front(pushed))]),
        stack |-> Front(pushed)]

\* a call of a method on instance inst that turns the fields b into b2
Call(inst, b2, alone2) ==
    /\ calls < MaxCalls
    /\ calls' = calls + 1
    /\ heap' = Store(inst, b2)
    /\ alone' = [alone EXCEPT ![inst] = alone2]
    /\ rendered' = [rendered EXCEPT ![inst] = NoProfile]
    /\ UNCHANGED builderVars
    /\ UNCHANGED indexVars
    /\ UNCHANGED tableVars
    /\ UNCHANGED layoutVars

push_frame_on(inst, name, file) ==
    /\ Len(View(inst).frames) < MaxFrames
    /\ Len(View(inst).stack) < MaxDepth
    /\ Call(inst, PushFrame(View(inst), name, file), PushFrame(alone[inst], name, file))

pop_frame_on(inst) ==
    /\ inst \in Instances
    /\ Call(inst, PopFrame(View(inst)), PopFrame(alone[inst]))

push_shared_frame_on(inst, name, file) ==
    /\ Len(View(inst).frames) < MaxFrames
    /\ Len(View(inst).stack) < MaxDepth
    /\ Call(inst, PushSharedFrame(View(inst), name, file),
             PushSharedFrame(alone[inst], name, file))

add_span_on(inst, name, offset, size) ==
    /\ Len(View(inst).frames) < MaxFrames
    /\ Len(View(inst).spans) < MaxSpans
    /\ Call(inst, AddSpan(View(inst), name, offset, size),
             AddSpan(alone[inst], name, offset, size))

render_on(inst, endValue) ==
    /\ calls < MaxCalls
    /\ calls' = calls + 1
    /\ rendered' = [rendered EXCEPT
                       ![inst] = Render(View(inst).stack, View(inst).spans, endValue)]
    /\ UNCHANGED <<heap, alone>>
    /\ UNCHANGED builderVars
    /\ UNCHANGED indexVars
    /\ UNCHANGED tableVars
    /\ UNCHANGED layoutVars

InstancesInit ==
    /\ heap = [o \in Objects |-> << >>]
    /\ alone = [inst \in Instances |-> EmptyBuilder]
    /\ rendered = [inst \in Instances |-> NoProfile]
    /\ calls = 0

InstancesNext ==
    \/ \E inst \in Instances, name \in ScopeNames, file \in Files :
          push_frame_on(inst, name, file)
    \/ \E inst \in Instances : pop_frame_on(inst)
    \/ \E inst \in Instances, name \in Names, file \in Files :
          push_shared_frame_on(inst, name, file)
    \/ \E inst \in Instances, name \in Names, offset \in Offsets, size \in Sizes :
          add_span_on(inst, name, offset, size)
    \/ \E inst \in Instances, endValue \in EndValues : render_on(inst, endValue)

\* the table "field" after Base.metadata.create_all
TableInit == field_table = {}

\* read has not been called
LayoutIdle ==
    /\ lpc = "idle"
    /\ fieldDescriptions = << >>
    /\ columnDescriptions = << >>
    /\ pagelistEnvelopes = << >>
    /\ columnPages = << >>
    /\ seen_pages = {}
    /\ page2column = << >>
    /\ fieldColumns = << >>
    /\ topLevelFields = << >>
    /\ nextRoot = 0
    /\ callstack = << >>
    /\ descended = << >>
    /\ builder = [frames |-> << >>, spans |-> << >>, stack |-> << >>,
                  shared_frames |-> << >>]
    /\ out = NoProfile

IndexIdle ==
    /\ pc = "idle"
    /\ field_descriptions = << >>
    /\ column_descriptions = << >>
    /\ alias_column_descriptions = << >>
    /\ pagelist_envelopes = << >>
    /\ nodes = << >>
    /\ field_tree = << >>
    /\ field_id_to_node = << >>
    /\ stage = "none"
    /\ error = "none"
    /\ returned = "none"

ProfileInit == BuilderInit /\ IndexIdle /\ InstancesInit /\ TableInit /\ LayoutIdle
SpecInstances == ProfileInit /\ [][InstancesNext]_vars
SpecProfile == ProfileInit /\ [][ProfileNext]_vars

(***************************************************************************)
(* Properties of ProfileBulder, checked under SpecProfile.                 *)
(***************************************************************************)
Rendered == profile.status # "none"
Max2(a, b) == IF a >= b THEN a ELSE b
Min2(a, b) == IF a <= b THEN a ELSE b

\* two half-open ranges [offset, offset+size) share a byte
RangesOverlap(a, b) ==
    Max2(a.offset, b.offset) < Min2(a.offset + a.size, b.offset + b.size)

PairwiseNonOverlapping(sp) ==
    \A i, j \in 1 .. Len(sp) : i < j => ~RangesOverlap(sp[i], sp[j])

\* the stack after replaying the first i events: Open pushes, Close pops
RECURSIVE ReplayStack(_, _)
ReplayStack(ev, i) ==
    IF i = 0 THEN << >>
    ELSE LET s == ReplayStack(ev, i - 1)
         IN IF ev[i].type = "O" THEN Append(s, ev[i].frame) ELSE Front(s)

\* replaying ev shows the span's stack from span.offset to span.offset+span.size
Reproduced(span, ev) ==
    \E i \in 1 .. Len(ev) - 1 :
        /\ ReplayStack(ev, i) = span.stack
        /\ ev[i].at = span.offset
        /\ ev[i + 1].at = span.offset + span.size

\* C1 (round-trip law of render): whenever render returns a profile for
\* pairwise non-overlapping spans, replaying its events reproduces every
\* span's recorded stack over exactly [offset, offset+size), and the number of
\* Open events equals the number of Close events.
C1_RoundTrip ==
    (/\ profile.status = "ok"
     /\ \A k \in 1 .. Len(spans) : spans[k].size >= 0
     /\ PairwiseNonOverlapping(spans))
    => /\ \A k \in 1 .. Len(spans) : Reproduced(spans[k], profile.events)
       /\ Opened(profile.events) = Closed(profile.events)

\* taking the spans in ascending offset order, some span starts before the end
\* of the span processed just before it
OverlapInOrder(sp) ==
    LET ss == SortedByOffset(sp)
    IN \E i \in 2 .. Len(ss) : ss[i].offset < ss[i - 1].offset + ss[i - 1].size

\* C2 as stated: render fails with OverlapViolation whenever a span, in
\* ascending offset order, starts before the end of the span before it.
C2_OverlapAlwaysReported ==
    (/\ Rendered
     /\ \A k \in 1 .. Len(spans) : spans[k].size >= 0
     /\ OverlapInOrder(spans))
    => profile.status = "OverlapViolation"

\* C2 (amended): for such spans render returns no profile; it fails with
\* OverlapViolation when the scope stack is empty at the call and with
\* ImbalancedStack, which is checked first, when it is not.
C2_OverlapFails ==
    (Rendered /\ OverlapInOrder(spans))
    => /\ profile.status = IF stack = << >> THEN "OverlapViolation" ELSE "ImbalancedStack"
       /\ profile.events = << >>

C2_Witness ==
    /\ profile.status = "OverlapViolation"
    /\ \E i, j \in 1 .. Len(spans) :
          /\ spans[i].offset = 0 /\ spans[i].size = 2
          /\ spans[j].offset = 1 /\ spans[j].size = 2

NonDecreasing(ev) == \A i \in 1 .. Len(ev) - 1 : ev[i].at <= ev[i + 1].at

\* C3: a profile returned by render has non-decreasing 'at' offsets and as
\* many Open as Close events; when the events built for the recorded spans
\* would break either condition, render fails and returns no profile.
C3_Postconditions ==
    /\ profile.status = "ok"
       => /\ NonDecreasing(profile.events)
          /\ Opened(profile.events) = Closed(profile.events)
    /\ (Rendered /\ (~NonDecreasing(RawEvents(spans))
                     \/ Opened(RawEvents(spans)) # Closed(RawEvents(spans))))
       => profile.status \notin {"ok", "none"} /\ profile.events = << >>

C3_Witness ==
    /\ profile.status = "ok"
    /\ Len(spans) = 2
    /\ Len(profile.events) >= 4
    /\ \E i \in 1 .. Len(profile.events) - 1 :
          profile.events[i].at < profile.events[i + 1].at

AllTopLevel(sp) == \A k \in 1 .. Len(sp) : Len(sp[k].stack) = 1

\* Open(leaf)@offset, Close(leaf)@offset+size for each span in turn
RECURSIVE SiblingEvents(_)
SiblingEvents(ss) ==
    IF ss = << >> THEN << >>
    ELSE <<Event("O", Last(Head(ss).stack), Head(ss).offset),
           Event("C", Last(Head(ss).stack), Head(ss).offset + Head(ss).size)>>
         \o SiblingEvents(Tail(ss))

\* C4 as stated: spans added at top level with pairwise disjoint ranges are
\* rendered as one Open/Close pair each, in ascending offset order.
C4_DisjointSiblings ==
    (/\ Rendered
     /\ stack = << >>
     /\ AllTopLevel(spans)
     /\ \A k \in 1 .. Len(spans) : spans[k].size >= 0
     /\ PairwiseNonOverlapping(spans))
    => /\ profile.status = "ok"
       /\ profile.events = SiblingEvents(SortedByOffset(spans))

\* C4 (amended): the same for spans of positive size: spans added at top level
\* with size > 0 and pairwise disjoint ranges, rendered with the scope stack
\* empty, give exactly Open(leaf)@offset, Close(leaf)@offset+size per span in
\* ascending offset order.
C4_DisjointPositiveSiblings ==
    (/\ Rendered
     /\ stack = << >>
     /\ AllTopLevel(spans)
     /\ \A k \in 1 .. Len(spans) : spans[k].size > 0
     /\ PairwiseNonOverlapping(spans))
    => /\ profile.status = "ok"
       /\ profile.events = SiblingEvents(SortedByOffset(spans))

C4_Witness ==
    /\ profile.status = "ok"
    /\ stack = << >>
    /\ Len(spans) = 2
    /\ AllTopLevel(spans)
    /\ spans[1].size > 0 /\ spans[2].size > 0
    /\ spans[1].offset + spans[1].size = spans[2].offset
    /\ Len(profile.events) = 4

None == << >>
Some(v) == <<v>>

Elems(s) == {s[i] : i \in 1 .. Len(s)}
SeqsUpTo(S, n) == UNION {[1 .. k -> S] : k \in 0 .. n}

\* the inputs: a parent id of MaxFields or more is outside every array
FieldDescriptions == [fParentFieldID : 0 .. MaxFields]
ColumnDescriptions ==
    [fFieldID : 0 .. MaxFields, fFlags : {0, 1},
     fFirstElementIndex : {None, Some(-1), Some(0)}]
\* a physical column id of MaxColumns is the id of no described column
AliasColumnDescriptions ==
    [fPhysicalColumnID : {0, MaxColumns}, fFieldID : 0 .. MaxFields]

\* the page list of column c in cluster k, and the summary of cluster k; a
\* list has one or two pages, and a list of two is not in offset order
PageList(k, c) ==
    LET n == 1 + ((k + c) % 2)
    IN [i \in 1 .. n |->
          [offset |-> 2 * (k * (MaxColumns + 1) + c) + (n - i), size |-> i,
           elements |-> 1]]
ClusterSummary(k) ==
    [fFirstEntryNumber |-> k, fNEntries |-> 1, fFeatureFlag |-> 0]
\* an envelope: per cluster (0-based k at position k + 1) the number of
\* per-column page lists it holds, from one list short of MaxColumns to one
\* list more
Envelope(shape) ==
    [clusterSummaries |-> [i \in 1 .. Len(shape) |-> ClusterSummary(i - 1)],
     pageLocations |-> [i \in 1 .. Len(shape) |->
                          [j \in 1 .. shape[i] |-> PageList(i - 1, j - 1)]]]
Envelopes ==
    {Envelope(sh) : sh \in SeqsUpTo(MaxColumns - 1 .. MaxColumns + 1, MaxClusters)}
\* an envelope of the list that the code has not read
Unread == [clusterSummaries |-> << >>, pageLocations |-> << >>]

NewNode == [children |-> << >>, columns |-> << >>, alias_columns |-> << >>]

TreeInit == [nodes |-> << >>, tree |-> << >>, err |-> "none"]

\* (mutant) the parent is looked up without the None check
ParentMissingNever(nds, parent_id) == FALSE

\* nodes.get(parent_id) is None
ParentMissing(nds, parent_id) == parent_id \notin DOMAIN nds

\* (mutant) the child is entered in front of the children already there
AttachChildFirst(nds, parent_id, field_id) ==
    IF parent_id \in DOMAIN nds
    THEN [nds EXCEPT ![parent_id].children = <<field_id>> \o @]
    ELSE nds

\* parent_node["children"][field_id] = node
AttachChild(nds, parent_id, field_id) ==
    IF parent_id \in DOMAIN nds
    THEN [nds EXCEPT ![parent_id].children = Append(@, field_id)]
    ELSE nds

\* one iteration of get_field_tree's loop
FieldStep(st, field_id, field) ==
    LET parent_id == field.fParentFieldID
        nodes1 == [k \in DOMAIN st.nodes \cup {field_id} |->
                     IF k = field_id THEN NewNode ELSE st.nodes[k]]
    IN IF parent_id = field_id
       THEN [st EXCEPT !.nodes = nodes1, !.tree = Append(@, field_id)]
       ELSE IF ParentMissing(nodes1, parent_id)
       THEN [st EXCEPT !.nodes = nodes1, !.err = "OrderViolation"]
       ELSE [st EXCEPT !.nodes = AttachChild(nodes1, parent_id, field_id)]

RECURSIVE GetFieldTreeLoop(_, _, _)
GetFieldTreeLoop(fds, field_id, st) ==
    IF field_id >= Len(fds) \/ st.err # "none" THEN st
    ELSE GetFieldTreeLoop(fds, field_id + 1, FieldStep(st, field_id, fds[field_id + 1]))

GetFieldTree(fds) == GetFieldTreeLoop(fds, 0, TreeInit)

\* (mutant) only the top level is entered in the map
BuildFieldIdMapFlat(keys, nds) == keys

\* build_field_id_map: the keys of field_id_to_node, in insertion order
RECURSIVE BuildFieldIdMap(_, _)
BuildFieldIdMap(keys, nds) ==
    IF keys = << >> THEN << >>
    ELSE <<Head(keys)>> \o BuildFieldIdMap(nds[Head(keys)].children, nds)
                        \o BuildFieldIdMap(Tail(keys), nds)

\* (mutant) decode_column_flags without the test for a missing index
DecodeColumnFlagsLenient(column) ==
    [err |-> "none", isDeferred |-> column.fFlags % 2 = 1,
     isSuppressed |-> /\ column.fFlags % 2 = 1
                      /\ column.fFirstElementIndex # None
                      /\ column.fFirstElementIndex[1] < 0,
     hasValueRange |-> (column.fFlags \div 2) % 2 = 1]

\* decode_column_flags
DecodeColumnFlags(column) ==
    LET isDeferred == column.fFlags % 2 = 1
        hasValueRange == (column.fFlags \div 2) % 2 = 1
    IN IF isDeferred /\ column.fFirstElementIndex = None
       THEN [err |-> "MalformedFlags", isDeferred |-> isDeferred,
             isSuppressed |-> FALSE, hasValueRange |-> hasValueRange]
       ELSE [err |-> "none", isDeferred |-> isDeferred,
             isSuppressed |-> isDeferred /\ column.fFirstElementIndex[1] < 0,
             hasValueRange |-> hasValueRange]

\* (mutant) a column of an unknown field is passed over
FieldKnownOrSkipped(keys, field_id) == TRUE

\* column_field_id in field_id_to_node
FieldKnown(keys, field_id) == field_id \in Elems(keys)

\* (mutant) the descriptor is put in front of the node's column list
PrependColumn(nds, field_id, desc) ==
    IF field_id \in DOMAIN nds
    THEN [nds EXCEPT ![field_id].columns = <<desc>> \o @]
    ELSE nds

\* (mutant) the map entry is replaced by a new dict that holds the column
AppendColumnToNew(nds, field_id, desc) ==
    IF field_id \in DOMAIN nds
    THEN [nds EXCEPT ![field_id] = [NewNode EXCEPT !.columns = <<desc>>]]
    ELSE nds

\* node["columns"].append({...})
AppendColumn(nds, field_id, desc) ==
    IF field_id \in DOMAIN nds
    THEN [nds EXCEPT ![field_id].columns = Append(@, desc)]
    ELSE nds

\* (mutant) the field id is looked up before the flags are decoded
ColumnStepFieldFirst(st, keys, col_id, column) ==
    LET flags == DecodeColumnFlags(column)
    IN IF ~FieldKnown(keys, column.fFieldID)
       THEN [st EXCEPT !.err = "StructuralInconsistency"]
       ELSE IF flags.err # "none" THEN [st EXCEPT !.err = flags.err]
       ELSE [st EXCEPT !.nodes =
                AppendColumn(@, column.fFieldID,
                             [column_id |-> col_id,
                              flags |-> [isDeferred |-> flags.isDeferred,
                                         isSuppressed |-> flags.isSuppressed,
                                         hasValueRange |-> flags.hasValueRange],
                              cluster_info |-> << >>])]

\* one iteration of the loop over the column descriptions
ColumnStep(st, keys, col_id, column) ==
    LET flags == DecodeColumnFlags(column)
    IN IF flags.err # "none" THEN [st EXCEPT !.err = flags.err]
       ELSE IF FieldKnown(keys, column.fFieldID)
       THEN [st EXCEPT !.nodes =
                AppendColumn(@, column.fFieldID,
                             [column_id |-> col_id,
                              flags |-> [isDeferred |-> flags.isDeferred,
                                         isSuppressed |-> flags.isSuppressed,
                                         hasValueRange |-> flags.hasValueRange],
                              cluster_info |-> << >>])]
       ELSE [st EXCEPT !.err = "StructuralInconsistency"]

RECURSIVE ColumnLoop(_, _, _, _)
ColumnLoop(cols, keys, col_id, st) ==
    IF col_id >= Len(cols) \/ st.err # "none" THEN st
    ELSE ColumnLoop(cols, keys, col_id + 1, ColumnStep(st, keys, col_id, cols[col_id + 1]))

\* one iteration of the loop over the alias column descriptions
AliasStep(st, keys, alias_column) ==
    IF FieldKnown(keys, alias_column.fFieldID)
    THEN [st EXCEPT !.nodes =
             IF alias_column.fFieldID \in DOMAIN @
             THEN [@ EXCEPT ![alias_column.fFieldID].alias_columns =
                      Append(@, [physical_column_id |-> alias_column.fPhysicalColumnID])]
             ELSE @]
    ELSE [st EXCEPT !.err = "StructuralInconsistency"]

RECURSIVE AliasLoop(_, _, _)
AliasLoop(als, keys, st) ==
    IF als = << >> \/ st.err # "none" THEN st
    ELSE AliasLoop(Tail(als), keys, AliasStep(st, keys, Head(als)))

\* map_columns_to_fields, after build_field_id_map
MapColumnsToFields(cols, als, keys, nds) ==
    AliasLoop(als, keys, ColumnLoop(cols, keys, 0, [nodes |-> nds, err |-> "none"]))

\* (mutant) column_id_to_pages that keeps, per column, only the last cluster
\* that lists it
ColumnIdToPagesOverwrite(envelope) ==
    LET K == Len(envelope.clusterSummaries)
        listed(c) == {k \in 0 .. K - 1 : c < Len(envelope.pageLocations[k + 1])}
        last(c) == CHOOSE k \in listed(c) : \A j \in listed(c) : j <= k
        ids == UNION {0 .. Len(envelope.pageLocations[k + 1]) - 1 : k \in 0 .. K - 1}
    IN [c \in ids |->
          [k \in {last(c)} |->
             [cluster_firstEntryNumber |-> envelope.clusterSummaries[k + 1].fFirstEntryNumber,
              cluster_nEntries |-> envelope.clusterSummaries[k + 1].fNEntries,
              cluster_feature_flag |-> envelope.clusterSummaries[k + 1].fFeatureFlag,
              pages |-> envelope.pageLocations[k + 1][c + 1]]]]

\* column_id_to_pages: per column id found in the envelope, per cluster id
\* listing it, the cluster's summary and the column's page list
ColumnIdToPages(envelope) ==
    LET K == Len(envelope.clusterSummaries)
        listed(c) == {k \in 0 .. K - 1 : c < Len(envelope.pageLocations[k + 1])}
        ids == UNION {0 .. Len(envelope.pageLocations[k + 1]) - 1 : k \in 0 .. K - 1}
    IN [c \in ids |->
          [k \in listed(c) |->
             [cluster_firstEntryNumber |-> envelope.clusterSummaries[k + 1].fFirstEntryNumber,
              cluster_nEntries |-> envelope.clusterSummaries[k + 1].fNEntries,
              cluster_feature_flag |-> envelope.clusterSummaries[k + 1].fFeatureFlag,
              pages |-> envelope.pageLocations[k + 1][c + 1]]]]

\* the body of the loop over a node's columns
AttachPages(st, fid, i, c2p) ==
    LET col_id == st.nodes[fid].columns[i].column_id
    IN IF col_id \in DOMAIN c2p
       THEN [st EXCEPT !.nodes[fid].columns[i].cluster_info = c2p[col_id]]
       ELSE [st EXCEPT !.err = "StructuralInconsistency"]

RECURSIVE NodePagesLoop(_, _, _, _)
NodePagesLoop(st, fid, i, c2p) ==
    IF i > Len(st.nodes[fid].columns) \/ st.err # "none" THEN st
    ELSE NodePagesLoop(AttachPages(st, fid, i, c2p), fid, i + 1, c2p)

RECURSIVE PagesLoop(_, _, _)
PagesLoop(st, keys, c2p) ==
    IF keys = << >> \/ st.err # "none" THEN st
    ELSE PagesLoop(NodePagesLoop(st, Head(keys), 1, c2p), Tail(keys), c2p)

\* map_pages_to_columns_to_fields
MapPagesToColumnsToFields(envelope, keys, nds) ==
    PagesLoop([nodes |-> nds, err |-> "none"], keys, ColumnIdToPages(envelope))

\* field_tree = get_field_tree(field_descriptions); the number of envelopes
\* is fixed at the call, their content is drawn when it is first read
get_field_tree ==
    /\ pc = "idle"
    /\ \E fds \in SeqsUpTo(FieldDescriptions, MaxFields), n \in 0 .. MaxEnvelopes :
         LET t == GetFieldTree(fds) IN
           /\ field_descriptions' = fds
           /\ pagelist_envelopes' = [i \in 1 .. n |-> Unread]
           /\ nodes' = t.nodes
           /\ field_tree' = IF t.err = "none" THEN t.tree ELSE << >>
           /\ error' = t.err
           /\ pc' = IF t.err = "none" THEN "tree" ELSE "raised"
    /\ stage' = "get_field_tree"
    /\ UNCHANGED <<column_descriptions, alias_column_descriptions, field_id_to_node, returned>>
    /\ UNCHANGED builderVars
    /\ UNCHANGED instanceVars
    /\ UNCHANGED tableVars
    /\ UNCHANGED layoutVars

\* field_column_tree = map_columns_to_fields(...)
map_columns_to_fields ==
    /\ pc = "tree"
    /\ \E cols \in SeqsUpTo(ColumnDescriptions, MaxColumns),
          als \in SeqsUpTo(AliasColumnDescriptions, MaxAliases) :
         LET keys == BuildFieldIdMap(field_tree, nodes)
             r == MapColumnsToFields(cols, als, keys, nodes) IN
           /\ column_descriptions' = cols
           /\ alias_column_descriptions' = als
           /\ field_id_to_node' = keys
           /\ nodes' = r.nodes
           /\ error' = r.err
           /\ pc' = IF r.err = "none" THEN "columns" ELSE "raised"
    /\ stage' = "map_columns_to_fields"
    /\ UNCHANGED <<field_descriptions, pagelist_envelopes, field_tree, returned>>
    /\ UNCHANGED builderVars
    /\ UNCHANGED instanceVars
    /\ UNCHANGED tableVars
    /\ UNCHANGED layoutVars

\* (mutant) the test for several cluster groups left out
TooManyEnvelopesNever(envelopes) == FALSE

\* len(pagelist_envelopes) > 1
TooManyEnvelopes(envelopes) == Len(envelopes) > 1

\* (mutant) the test for an empty list of envelopes left out
NoEnvelopesNever(envelopes) == FALSE

\* len(pagelist_envelopes) == 0
NoEnvelopes(envelopes) == Len(envelopes) = 0

\* the two tests of len(pagelist_envelopes)
check_pagelist_envelopes ==
    /\ pc = "columns"
    /\ IF TooManyEnvelopes(pagelist_envelopes)
       THEN error' = "UnsupportedLayout" /\ pc' = "raised" /\ returned' = returned
       ELSE IF NoEnvelopes(pagelist_envelopes)
       THEN error' = error /\ pc' = "returned" /\ returned' = "empty"
       ELSE error' = error /\ pc' = "pages" /\ returned' = returned
    /\ stage' = "get_field_to_page_map"
    /\ UNCHANGED <<field_descriptions, column_descriptions, alias_column_descriptions,
                   pagelist_envelopes, nodes, field_tree, field_id_to_node>>
    /\ UNCHANGED builderVars
    /\ UNCHANGED instanceVars
    /\ UNCHANGED tableVars
    /\ UNCHANGED layoutVars

\* return map_pages_to_columns_to_fields(pagelist_envelopes[0], ...)
map_pages_to_columns_to_fields ==
    /\ pc = "pages"
    /\ \E envelope \in Envelopes :
         LET r == MapPagesToColumnsToFields(envelope, field_id_to_node, nodes) IN
           /\ pagelist_envelopes' = <<envelope>>
           /\ nodes' = r.nodes
           /\ error' = r.err
           /\ pc' = IF r.err = "none" THEN "returned" ELSE "raised"
           /\ returned' = IF r.err = "none" THEN "field_column_tree" ELSE "none"
    /\ stage' = "map_pages_to_columns_to_fields"
    /\ UNCHANGED <<field_descriptions, column_descriptions, alias_column_descriptions,
                   field_tree, field_id_to_node>>
    /\ UNCHANGED builderVars
    /\ UNCHANGED instanceVars
    /\ UNCHANGED tableVars
    /\ UNCHANGED layoutVars

IndexInit == IndexIdle /\ BuilderInit /\ InstancesInit /\ TableInit /\ LayoutIdle
IndexNext ==
    \/ get_field_tree
    \/ map_columns_to_fields
    \/ check_pagelist_envelopes
    \/ map_pages_to_columns_to_fields
SpecIndex == IndexInit /\ [][IndexNext]_vars

\* one unit of work on a file: either a call of get_field_to_page_map or a
\* session of calls on a ProfileBulder; the two share no state
UnitNext ==
    \/ BuilderInit /\ get_field_tree
    \/ BuilderInit /\ map_columns_to_fields
    \/ BuilderInit /\ check_pagelist_envelopes
    \/ BuilderInit /\ map_pages_to_columns_to_fields
    \/ IndexIdle /\ \E name \in ScopeNames, file \in Files : push_frame(name, file)
    \/ IndexIdle /\ pop_frame
    \/ IndexIdle /\ \E name \in Names, file \in Files : push_shared_frame(name, file)
    \/ IndexIdle /\ \E name \in Names, offset \in Offsets, size \in Sizes :
                       add_span(name, offset, size)
    \/ IndexIdle /\ \E endValue \in EndValues : render(endValue)
SpecUnit == ProfileInit /\ [][UnitNext]_vars

(***************************************************************************)
(* The relational model: the table "field" and the two relationships of    *)
(* Field on its self-referential foreign key parent_id -> field.id.        *)
(***************************************************************************)
\* a row of "field": its primary key and its nullable parent_id; a parent_id
\* of MaxRows + 1 is the id of no row (SQLite does not enforce the key)
FieldRows == [id : 1 .. MaxRows, parent_id : {None} \cup {Some(k) : k \in 1 .. MaxRows + 1}]

\* (mutant) the relationship parent declared with the other side as remote
ParentRemoteSideDefault == "parent_id"

\* remote_side=[id] of the relationship parent
ParentRemoteSide == "id"

\* the rows a relationship on the foreign key loads for row f: with the
\* remote side "id" the row parent_id points to, with the remote side
\* "parent_id" the rows whose parent_id points to f
Related(rows, f, remote_side) ==
    IF remote_side = "id"
    THEN {r \in rows : f.parent_id = Some(r.id)}
    ELSE {r \in rows : r.parent_id = Some(f.id)}

\* Field.parent: a scalar, None when no row is loaded
Field_parent(f) ==
    LET loaded == Related(field_table, f, ParentRemoteSide)
    IN IF loaded = {} THEN None ELSE Some(CHOOSE r \in loaded : TRUE)

\* Field.children: a collection
Field_children(f) == Related(field_table, f, "parent_id")

\* session.add(Field(id=..., parent_id=...)); session.commit(): a second row
\* with a primary key already in the table is rejected and changes nothing
insert_field(id, parent_id) ==
    /\ field_table' = IF \E r \in field_table : r.id = id
                      THEN field_table
                      ELSE field_table \cup {[id |-> id, parent_id |-> parent_id]}
    /\ UNCHANGED builderVars
    /\ UNCHANGED indexVars
    /\ UNCHANGED instanceVars
    /\ UNCHANGED layoutVars

TableNext == \E row \in FieldRows : insert_field(row.id, row.parent_id)
SpecTable == ProfileInit /\ [][TableNext]_vars

(***************************************************************************)
(* layoutviz.read: the pages of an RNTuple are collected per column, the   *)
(* columns per field, and descend walks the fields from the roots, pushing *)
(* a frame per field and per column and adding a span per page. The spans  *)
(* read adds for the file's own records (header, key list, streamer info,  *)
(* keys, envelopes) are add_span calls outside the walk and are left out,  *)
(* as is the table written to pagedata_<name>.csv.                         *)
(***************************************************************************)
\* the inputs: field descriptions with a parent id (MaxFields is outside
\* every array) and flags with the bit 0x2 clear or set, column descriptions
\* with a field id, and page locators that fit in the first MaxSize bytes
LayoutFieldDescriptions(n) == [fParentFieldID : 0 .. n, fFlags : {0, 2}]
LayoutColumnDescriptions(n) == [fFieldID : 0 .. n - 1]
LayoutPages ==
    {p \in [offset : Offsets, size : 1 .. MaxSize] : p.offset + p.size <= MaxSize}
\* ple.pageLocations: per cluster, per column, a list of pages
LayoutEnvelope(clusters) == [pageLocations |-> clusters]
\* the lists of up to nEnvelopes envelopes of up to nClusters clusters, each
\* with up to nColumns page lists of up to nPages pages
LayoutEnvelopes(nEnvelopes, nClusters, nColumns, nPages) ==
    SeqsUpTo({LayoutEnvelope(clusters) :
                clusters \in SeqsUpTo(SeqsUpTo(SeqsUpTo(LayoutPages, nPages), nColumns),
                                      nClusters)},
             nEnvelopes)

\* the pages of the envelopes as (cluster, column, page) claims in the order
\* of the four nested loops
ClaimsOfList(pl, clusterId, columnId) ==
    [i \in 1 .. Len(pl) |->
       [cluster |-> clusterId, column |-> columnId,
        offset |-> pl[i].offset, size |-> pl[i].size]]
RECURSIVE ClaimsOfCluster(_, _, _)
ClaimsOfCluster(cluster, clusterId, columnId) ==
    IF columnId >= Len(cluster) THEN << >>
    ELSE ClaimsOfList(cluster[columnId + 1], clusterId, columnId)
           \o ClaimsOfCluster(cluster, clusterId, columnId + 1)
RECURSIVE ClaimsOfEnvelope(_, _)
ClaimsOfEnvelope(ple, clusterId) ==
    IF clusterId >= Len(ple.pageLocations) THEN << >>
    ELSE ClaimsOfCluster(ple.pageLocations[clusterId + 1], clusterId, 0)
           \o ClaimsOfEnvelope(ple, clusterId + 1)
RECURSIVE Claims(_)
Claims(envelopes) ==
    IF envelopes = << >> THEN << >>
    ELSE ClaimsOfEnvelope(Head(envelopes), 0) \o Claims(Tail(envelopes))

\* d.get(k, default) and d[k] = v for a dict held as a function
Get(d, k, default) == IF k \in DOMAIN d THEN d[k] ELSE default
Put(d, k, v) == [x \in DOMAIN d \cup {k} |-> IF x = k THEN v ELSE d[x]]

\* (mutant) a page is known by its offset and size within its cluster
SeenKeyInCluster(claim) == <<claim.offset, claim.size, claim.cluster>>

\* tup = (page.locator.offset, page.locator.size): the identity of a page
SeenKey(claim) == <<claim.offset, claim.size>>

\* the body of the innermost loop of the page collection
CollectPage(st, claim) ==
    LET key == <<claim.offset, claim.size, claim.cluster>>
        p2c == Put(st.page2column, key,
                   Get(st.page2column, key, {}) \cup {claim.column})
    IN IF SeenKey(claim) \in st.seen_pages
       THEN [st EXCEPT !.page2column = p2c]
       ELSE [page2column |-> p2c,
             seen_pages |-> st.seen_pages \cup {SeenKey(claim)},
             columnPages |->
                Put(st.columnPages, claim.column,
                    Append(Get(st.columnPages, claim.column, << >>),
                           [cluster |-> claim.cluster, offset |-> claim.offset,
                            size |-> claim.size]))]

RECURSIVE CollectPages(_, _)
CollectPages(st, claims) ==
    IF claims = << >> THEN st
    ELSE CollectPages(CollectPage(st, Head(claims)), Tail(claims))

\* fieldColumns: per field id the descriptors of its columns, in column order
RECURSIVE FieldColumns(_, _, _, _)
FieldColumns(fc, cds, columnId, cp) ==
    IF columnId >= Len(cds) THEN fc
    ELSE FieldColumns(
           Put(fc, cds[columnId + 1].fFieldID,
               Append(Get(fc, cds[columnId + 1].fFieldID, << >>),
                      [id |-> columnId, pages |-> Get(cp, columnId, << >>)])),
           cds, columnId + 1, cp)

\* topLevelFields: the fields that are their own parent, in ascending order
RECURSIVE TopLevelFields(_, _)
TopLevelFields(fds, fieldID) ==
    IF fieldID >= Len(fds) THEN << >>
    ELSE (IF fds[fieldID + 1].fParentFieldID = fieldID THEN <<fieldID>> ELSE << >>)
           \o TopLevelFields(fds, fieldID + 1)

\* fieldDescription.fFlags & 0x2
Projected(fieldDescription) == (fieldDescription.fFlags \div 2) % 2 = 1

\* the labels of a field's frame: its name and its type
FieldName(fieldID) == "Field" \o ToString(fieldID)
FieldType(fieldID) == "Type"

\* (mutant) the test of line 248 without `childID == fieldID`
ChildOfOrSelf(fds, fieldID, childID) ==
    fds[childID + 1].fParentFieldID = fieldID

\* the fields the loop of descend does not skip: childID's parent is fieldID
\* and childID is not fieldID itself
ChildOf(fds, fieldID, childID) ==
    fds[childID + 1].fParentFieldID = fieldID /\ childID # fieldID

\* the children of fieldID the loop has yet to reach from position 'from'
ChildrenFrom(fds, fieldID, from) ==
    {childID \in from .. Len(fds) - 1 : ChildOf(fds, fieldID, childID)}

\* for page in column["pages"]: profile.add_span("Page", offset, size)
RECURSIVE AddSpans(_, _)
AddSpans(b, pages) ==
    IF pages = << >> THEN b
    ELSE AddSpans(AddSpan(b, "Page", Head(pages).offset, Head(pages).size), Tail(pages))

\* the recursion of descend is as deep as the longest chain of fields
MaxCallDepth == MaxFields + 1

\* a call of descend(profile, schema, fieldColumns, fieldID): 'at' is "enter"
\* before the flag test and "body" after the field's frame was pushed;
\* column and child are the positions of the two loops; entry is the scope
\* stack the call found
Activation(fieldID) ==
    [fieldID |-> fieldID, at |-> "enter", column |-> 0, child |-> 0,
     entry |-> builder.stack]

Top == Last(callstack)
TopColumns == Get(fieldColumns, Top.fieldID, << >>)

layoutInputs == <<fieldDescriptions, columnDescriptions, pagelistEnvelopes>>
layoutLocals ==
    <<columnPages, seen_pages, page2column, fieldColumns, topLevelFields>>

\* profile.push_frame(path) ... profile.push_frame("RNTuple: name")
read_open ==
    /\ lpc = "read"
    /\ builder' = PushFrame(PushFrame(builder, "Path", "None"), "RNTuple", "None")
    /\ lpc' = "pages"
    /\ UNCHANGED <<layoutInputs, layoutLocals, nextRoot, callstack, descended, out>>
    /\ UNCHANGED builderVars
    /\ UNCHANGED indexVars
    /\ UNCHANGED instanceVars
    /\ UNCHANGED tableVars

\* the loops over rntuple.pagelistEnvelopes that fill columnPages,
\* seen_pages and page2column
collect_pages ==
    /\ lpc = "pages"
    /\ LET r == CollectPages([page2column |-> << >>, seen_pages |-> {},
                              columnPages |-> << >>],
                             Claims(pagelistEnvelopes)) IN
         /\ columnPages' = r.columnPages
         /\ seen_pages' = r.seen_pages
         /\ page2column' = r.page2column
    /\ lpc' = "columns"
    /\ UNCHANGED <<layoutInputs, fieldColumns, topLevelFields, nextRoot,
                   callstack, descended, builder, out>>
    /\ UNCHANGED builderVars
    /\ UNCHANGED indexVars
    /\ UNCHANGED instanceVars
    /\ UNCHANGED tableVars

\* fieldColumns and topLevelFields
build_field_columns ==
    /\ lpc = "columns"
    /\ fieldColumns' = FieldColumns(<< >>, columnDescriptions, 0, columnPages)
    /\ topLevelFields' = TopLevelFields(fieldDescriptions, 0)
    /\ nextRoot' = 0
    /\ lpc' = "walk"
    /\ UNCHANGED <<layoutInputs, columnPages, seen_pages, page2column,
                   callstack, descended, builder, out>>
    /\ UNCHANGED builderVars
    /\ UNCHANGED indexVars
    /\ UNCHANGED instanceVars
    /\ UNCHANGED tableVars

\* for fieldID in topLevelFields: descend(..., fieldID)
descend_root ==
    /\ lpc = "walk"
    /\ callstack = << >>
    /\ nextRoot < Len(topLevelFields)
    /\ callstack' = <<Activation(topLevelFields[nextRoot + 1])>>
    /\ descended' = Append(descended, topLevelFields[nextRoot + 1])
    /\ nextRoot' = nextRoot + 1
    /\ UNCHANGED <<lpc, layoutInputs, layoutLocals, builder, out>>
    /\ UNCHANGED builderVars
    /\ UNCHANGED indexVars
    /\ UNCHANGED instanceVars
    /\ UNCHANGED tableVars

\* descend on a projected field: return
descend_projected ==
    /\ callstack # << >>
    /\ Top.at = "enter"
    /\ Projected(fieldDescriptions[Top.fieldID + 1])
    /\ callstack' = Front(callstack)
    /\ UNCHANGED <<lpc, layoutInputs, layoutLocals, nextRoot, descended, builder, out>>
    /\ UNCHANGED builderVars
    /\ UNCHANGED indexVars
    /\ UNCHANGED instanceVars
    /\ UNCHANGED tableVars

\* profile.push_shared_frame(field_name, field_type)
descend_field ==
    /\ callstack # << >>
    /\ Top.at = "enter"
    /\ ~Projected(fieldDescriptions[Top.fieldID + 1])
    /\ builder' = PushSharedFrame(builder, FieldName(Top.fieldID), FieldType(Top.fieldID))
    /\ callstack' = Append(Front(callstack), [Top EXCEPT !.at = "body"])
    /\ UNCHANGED <<lpc, layoutInputs, layoutLocals, nextRoot, descended, out>>
    /\ UNCHANGED builderVars
    /\ UNCHANGED indexVars
    /\ UNCHANGED instanceVars
    /\ UNCHANGED tableVars

\* one iteration of the loop over the field's columns: the column's frame is
\* pushed, its pages are added as spans, the frame is popped
descend_column ==
    /\ callstack # << >>
    /\ Top.at = "body"
    /\ Top.column < Len(TopColumns)
    /\ builder' = PopFrame(AddSpans(PushSharedFrame(builder, "Column", "None"),
                                    TopColumns[Top.column + 1].pages))
    /\ callstack' = Append(Front(callstack), [Top EXCEPT !.column = @ + 1])
    /\ UNCHANGED <<lpc, layoutInputs, layoutLocals, nextRoot, descended, out>>
    /\ UNCHANGED builderVars
    /\ UNCHANGED indexVars
    /\ UNCHANGED instanceVars
    /\ UNCHANGED tableVars

\* the loop over the field descriptions reaches a child: descend(..., childID)
descend_child ==
    /\ callstack # << >>
    /\ Top.at = "body"
    /\ Top.column >= Len(TopColumns)
    /\ ChildrenFrom(fieldDescriptions, Top.fieldID, Top.child) # {}
    /\ Len(callstack) < MaxCallDepth
    /\ LET childID == Min(ChildrenFrom(fieldDescriptions, Top.fieldID, Top.child)) IN
         /\ callstack' = Append(Append(Front(callstack),
                                       [Top EXCEPT !.child = childID + 1]),
                                Activation(childID))
         /\ descended' = Append(descended, childID)
    /\ UNCHANGED <<lpc, layoutInputs, layoutLocals, nextRoot, builder, out>>
    /\ UNCHANGED builderVars
    /\ UNCHANGED indexVars
    /\ UNCHANGED instanceVars
    /\ UNCHANGED tableVars

\* the loop ends: profile.pop_frame() and return
descend_return ==
    /\ callstack # << >>
    /\ Top.at = "body"
    /\ Top.column >= Len(TopColumns)
    /\ ChildrenFrom(fieldDescriptions, Top.fieldID, Top.child) = {}
    /\ builder' = PopFrame(builder)
    /\ callstack' = Front(callstack)
    /\ UNCHANGED <<lpc, layoutInputs, layoutLocals, nextRoot, descended, out>>
    /\ UNCHANGED builderVars
    /\ UNCHANGED indexVars
    /\ UNCHANGED instanceVars
    /\ UNCHANGED tableVars

\* the pop_frame that closes the RNTuple's frame
rntuple_close ==
    /\ lpc = "walk"
    /\ callstack = << >>
    /\ nextRoot >= Len(topLevelFields)
    /\ builder' = PopFrame(builder)
    /\ lpc' = "close"
    /\ UNCHANGED <<layoutInputs, layoutLocals, nextRoot, callstack, descended, out>>
    /\ UNCHANGED builderVars
    /\ UNCHANGED indexVars
    /\ UNCHANGED instanceVars
    /\ UNCHANGED tableVars

\* the pop_frame that closes the file's frame
read_close ==
    /\ lpc = "close"
    /\ builder' = PopFrame(builder)
    /\ lpc' = "render"
    /\ UNCHANGED <<layoutInputs, layoutLocals, nextRoot, callstack, descended, out>>
    /\ UNCHANGED builderVars
    /\ UNCHANGED indexVars
    /\ UNCHANGED instanceVars
    /\ UNCHANGED tableVars

\* out = profile.render(endValue=file_size)
read_render ==
    /\ lpc = "render"
    /\ \E file_size \in {MaxOffset + MaxSize} :
         out' = Render(builder.stack, builder.spans, file_size)
    /\ lpc' = "done"
    /\ UNCHANGED <<layoutInputs, layoutLocals, nextRoot, callstack, descended, builder>>
    /\ UNCHANGED builderVars
    /\ UNCHANGED indexVars
    /\ UNCHANGED instanceVars
    /\ UNCHANGED tableVars

\* read up to its call of render
ReadToRender ==
    \/ read_open
    \/ collect_pages
    \/ build_field_columns
    \/ descend_root
    \/ descend_projected
    \/ descend_field
    \/ descend_column
    \/ descend_child
    \/ descend_return
    \/ rntuple_close
    \/ read_close

LayoutNext == ReadToRender \/ read_render

\* read is called on a file whose RNTuple has a schema and page lists of
\* the given sets
LayoutInit(fds, cds, ples) ==
    /\ lpc = "read"
    /\ fieldDescriptions \in fds
    /\ columnDescriptions \in cds
    /\ pagelistEnvelopes \in ples
    /\ columnPages = << >>
    /\ seen_pages = {}
    /\ page2column = << >>
    /\ fieldColumns = << >>
    /\ topLevelFields = << >>
    /\ nextRoot = 0
    /\ callstack = << >>
    /\ descended = << >>
    /\ builder = EmptyBuilder
    /\ out = NoProfile
    /\ BuilderInit /\ IndexIdle /\ InstancesInit /\ TableInit

\* the walk over every array of up to MaxFields field descriptions; read is
\* one sequential call, so a statement that can run does run
WalkInit ==
    LayoutInit(SeqsUpTo(LayoutFieldDescriptions(MaxFields), MaxFields),
               SeqsUpTo(LayoutColumnDescriptions(MaxFields), MaxWalkColumns),
               LayoutEnvelopes(1, 1, 1, MaxWalkPages))
SpecWalk == WalkInit /\ [][LayoutNext]_vars /\ WF_vars(ReadToRender)

\* the page collection over envelopes of up to MaxClusters clusters and
\* MaxColumns columns, and over two envelopes of one cluster each, with a
\* root field and its children
PagesInit ==
    LayoutInit(SeqsUpTo(LayoutFieldDescriptions(0), MaxLayoutFields),
               SeqsUpTo(LayoutColumnDescriptions(MaxLayoutFields), MaxColumns),
               LayoutEnvelopes(1, MaxClusters, MaxColumns, MaxLayoutPages)
                 \cup LayoutEnvelopes(MaxEnvelopes, 1, MaxColumns, MaxLayoutPages))
SpecPages == PagesInit /\ [][LayoutNext]_vars

(***************************************************************************)
(* Properties of get_field_to_page_map, checked under SpecIndex.           *)
(***************************************************************************)
NFields == Len(field_descriptions)
NColumns == Len(column_descriptions)
Parent(i) == field_descriptions[i + 1].fParentFieldID

\* every non-root field's parent id is an earlier index
ParentsEarlier == \A i \in 0 .. NFields - 1 : Parent(i) = i \/ Parent(i) \in 0 .. i - 1

\* C6: when every non-root field's parent id references an earlier index,
\* tree construction succeeds and the nodes reachable from the roots are the
\* fields 0..N-1, each exactly once.
C6_TreeComplete ==
    (stage # "none" /\ ParentsEarlier)
    => /\ error # "OrderViolation"
       /\ Len(BuildFieldIdMap(field_tree, nodes)) = NFields
       /\ \A fid \in 0 .. NFields - 1 :
             Cardinality({i \in 1 .. NFields :
                            BuildFieldIdMap(field_tree, nodes)[i] = fid}) = 1

\* a root, its child and its grandchild
C6_Witness ==
    /\ pc = "tree"
    /\ NFields = 3
    /\ Parent(0) = 0 /\ Parent(1) = 0 /\ Parent(2) = 1

\* the non-root fields whose parent id is a later index or outside 0..N-1
BadFields == {i \in 0 .. NFields - 1 : Parent(i) # i /\ Parent(i) \notin 0 .. i - 1}

\* C7: tree construction fails with OrderViolation at the first non-root field
\* whose parent id references no field constructed before it; the fields
\* after it are not constructed and no tree is returned.
C7_OrderViolation ==
    (stage # "none" /\ BadFields # {})
    => /\ error = "OrderViolation"
       /\ stage = "get_field_tree"
       /\ pc = "raised"
       /\ DOMAIN nodes = 0 .. Min(BadFields)
       /\ field_tree = << >>
       /\ returned = "none"

\* a parent id that is a later index of the array
C7_Witness ==
    /\ error = "OrderViolation"
    /\ \E i \in 0 .. NFields - 1 : Parent(i) > i /\ Parent(i) < NFields

ColumnsRan ==
    stage \in {"map_columns_to_fields", "get_field_to_page_map",
               "map_pages_to_columns_to_fields"}

\* the columns whose field id is absent from the field tree
DanglingColumns ==
    {c \in 0 .. NColumns - 1 :
       column_descriptions[c + 1].fFieldID \notin Elems(BuildFieldIdMap(field_tree, nodes))}

\* the columns with the deferred bit set and no first-element index
MalformedColumns ==
    {c \in 0 .. NColumns - 1 :
       /\ column_descriptions[c + 1].fFlags % 2 = 1
       /\ column_descriptions[c + 1].fFirstElementIndex = None}

\* C8 as stated: a column whose field id is absent from the field tree makes
\* column mapping fail with StructuralInconsistency.
C8_DanglingIsStructural ==
    (ColumnsRan /\ DanglingColumns # {})
    => error = "StructuralInconsistency" /\ returned = "none"

\* C8 (amended): such a column makes column mapping fail and return no
\* result; the error is StructuralInconsistency unless that column, or a
\* column before the first such column, has the deferred bit set without a
\* first-element index, which is reported first, as MalformedFlags.
C8_DanglingFails ==
    (ColumnsRan /\ DanglingColumns # {})
    => /\ error = IF \E c \in MalformedColumns : c <= Min(DanglingColumns)
                  THEN "MalformedFlags" ELSE "StructuralInconsistency"
       /\ stage = "map_columns_to_fields"
       /\ pc = "raised"
       /\ returned = "none"

C8_Witness ==
    /\ error = "StructuralInconsistency"
    /\ stage = "map_columns_to_fields"
    /\ NColumns = 2
    /\ DanglingColumns = {1}

\* column mapping ran and did not fail
ColumnsMapped == ColumnsRan /\ ~(stage = "map_columns_to_fields" /\ error # "none")

\* the places <<field id, position>> of the tree that hold column c
Occurrences(c) ==
    {<<fid, i>> \in (DOMAIN nodes) \X (1 .. NColumns) :
       i <= Len(nodes[fid].columns) /\ nodes[fid].columns[i].column_id = c}

\* C9: after column mapping succeeds every described column is held exactly
\* once in the tree, by the node of its own field id, every node of the tree
\* is reachable from the roots, no node holds a column that was not
\* described, and every node's columns are in strictly ascending column-id
\* order.
C9_ColumnsOnceAscending ==
    ColumnsMapped
    => /\ \A c \in 0 .. NColumns - 1 :
             Occurrences(c) = {<<column_descriptions[c + 1].fFieldID,
                                 CHOOSE i \in 1 .. NColumns :
                                    <<column_descriptions[c + 1].fFieldID, i>> \in Occurrences(c)>>}
       /\ DOMAIN nodes = Elems(field_id_to_node)
       /\ \A fid \in DOMAIN nodes :
             /\ Len(nodes[fid].columns) <= NColumns
             /\ \A i \in 1 .. Len(nodes[fid].columns) :
                   nodes[fid].columns[i].column_id \in 0 .. NColumns - 1
             /\ \A i, j \in 1 .. Len(nodes[fid].columns) :
                   i < j => nodes[fid].columns[i].column_id < nodes[fid].columns[j].column_id

\* two columns of one field
C9_Witness ==
    /\ pc = "columns"
    /\ NColumns = 2
    /\ \E fid \in DOMAIN nodes : Len(nodes[fid].columns) = 2

PagesRan == stage = "map_pages_to_columns_to_fields"

\* the (cluster, column) pairs present in the envelope
EnvelopePairs ==
    {<<k, c>> \in (0 .. MaxClusters) \X (0 .. MaxColumns + 1) :
       /\ k < Len(pagelist_envelopes[1].pageLocations)
       /\ c < Len(pagelist_envelopes[1].pageLocations[k + 1])}

\* C10: page mapping resolves the column id of every (cluster, column) pair
\* of the envelope; a pair whose column id is the id of no described column
\* makes it fail with StructuralInconsistency, otherwise every pair has a
\* cluster-page entry under the column's owning field node.
C10_PagePairsResolved ==
    PagesRan
    => IF \E p \in EnvelopePairs : p[2] >= NColumns
       THEN error = "StructuralInconsistency" /\ returned = "none"
       ELSE /\ error = "none"
            /\ \A p \in EnvelopePairs :
                  \E i \in 1 .. NColumns :
                     LET node == nodes[column_descriptions[p[2] + 1].fFieldID]
                     IN /\ i <= Len(node.columns)
                        /\ node.columns[i].column_id = p[2]
                        /\ p[1] \in DOMAIN node.columns[i].cluster_info

\* the clusters of the envelope whose page locations have an entry for column c
ClustersListing(c) == {k \in 0 .. MaxClusters : <<k, c>> \in EnvelopePairs}

\* the positions of column c in the column list of node fid
Held(fid, c) ==
    {i \in 1 .. Len(nodes[fid].columns) : nodes[fid].columns[i].column_id = c}

\* C11: the index returned for one envelope is exact: the node of each
\* described column's field holds the column once, and the column's
\* cluster-page index has an entry for exactly the clusters whose page
\* locations list the column, each carrying that cluster's firstEntryNumber,
\* entryCount and featureFlag and the column's page list of that cluster in
\* its original order.
C11_IndexExact ==
    (PagesRan /\ returned = "field_column_tree")
    => \A c \in 0 .. NColumns - 1 :
          LET fid == column_descriptions[c + 1].fFieldID
              envelope == pagelist_envelopes[1]
          IN /\ fid \in DOMAIN nodes
             /\ Cardinality(Held(fid, c)) = 1
             /\ \A i \in Held(fid, c) :
                   LET info == nodes[fid].columns[i].cluster_info
                   IN /\ DOMAIN info = ClustersListing(c)
                      /\ \A k \in ClustersListing(c) :
                            /\ info[k].cluster_firstEntryNumber
                                  = envelope.clusterSummaries[k + 1].fFirstEntryNumber
                            /\ info[k].cluster_nEntries
                                  = envelope.clusterSummaries[k + 1].fNEntries
                            /\ info[k].cluster_feature_flag
                                  = envelope.clusterSummaries[k + 1].fFeatureFlag
                            /\ info[k].pages = envelope.pageLocations[k + 1][c + 1]

\* fields evt (0) and pt (1, child of 0), columns 0 and 1 on field 1, two
\* clusters: cluster 0 lists both columns, cluster 1 lists column 0 only, and
\* column 1 has a page list of two pages in cluster 0
C11_Witness ==
    /\ PagesRan /\ returned = "field_column_tree"
    /\ NFields = 2 /\ Parent(0) = 0 /\ Parent(1) = 0
    /\ NColumns = 2
    /\ column_descriptions[1].fFieldID = 1 /\ column_descriptions[2].fFieldID = 1
    /\ Len(pagelist_envelopes[1].pageLocations) = 2
    /\ Len(pagelist_envelopes[1].pageLocations[1]) = 2
    /\ Len(pagelist_envelopes[1].pageLocations[2]) = 1
    /\ Len(pagelist_envelopes[1].pageLocations[1][2]) = 2

\* no column of the tree carries page information
NoPageInformation ==
    \A fid \in DOMAIN nodes :
       \A i \in 1 .. Len(nodes[fid].columns) :
          nodes[fid].columns[i].cluster_info = << >>

\* the call has ended, by an exception or by a return
Ended == pc \in {"raised", "returned"}

\* C12 as stated: a call with more than one page-list envelope fails with
\* UnsupportedLayout and attaches no page information.
C12_AlwaysUnsupported ==
    (Ended /\ Len(pagelist_envelopes) > 1)
    => error = "UnsupportedLayout" /\ NoPageInformation

\* C12 (amended): a call with more than one page-list envelope never returns
\* a result and attaches no page information; it fails with
\* UnsupportedLayout once tree construction and column mapping, which run
\* first, have succeeded, and with their error when one of them fails.
C12_MultipleEnvelopesFail ==
    Len(pagelist_envelopes) > 1
    => /\ pc \in {"tree", "columns", "raised"}
       /\ returned = "none"
       /\ NoPageInformation
       /\ Ended => /\ error # "none"
                   /\ error = "UnsupportedLayout" <=> stage = "get_field_to_page_map"
                   /\ error = "OrderViolation" <=> stage = "get_field_tree"
                   /\ error \in {"MalformedFlags", "StructuralInconsistency"}
                        <=> stage = "map_columns_to_fields"

\* two envelopes behind a tree of two fields with a column
C12_Witness ==
    /\ pc = "raised"
    /\ error = "UnsupportedLayout"
    /\ Len(pagelist_envelopes) = 2
    /\ NFields = 2
    /\ NColumns = 1

\* C13 as stated: a column with the deferred bit set and no first-element
\* index makes column mapping fail with MalformedFlags.
C13_MalformedAlwaysReported ==
    (ColumnsRan /\ MalformedColumns # {})
    => error = "MalformedFlags" /\ returned = "none"

\* C13 (amended): such a column makes column mapping fail and return no
\* result; the error is MalformedFlags unless a column before the first such
\* column has a field id absent from the tree, which is reported first, as
\* StructuralInconsistency. Every column attached to a node is marked
\* deferred exactly when its bit 0x1 is set, and suppressed exactly when it is
\* deferred and its first-element index is negative.
C13_DeferredFlags ==
    /\ (ColumnsRan /\ MalformedColumns # {})
       => /\ error = IF \E c \in DanglingColumns : c < Min(MalformedColumns)
                     THEN "StructuralInconsistency" ELSE "MalformedFlags"
          /\ stage = "map_columns_to_fields"
          /\ pc = "raised"
          /\ returned = "none"
    /\ ColumnsRan
       => \A fid \in DOMAIN nodes :
             \A i \in 1 .. Len(nodes[fid].columns) :
                LET col == nodes[fid].columns[i]
                    column == column_descriptions[col.column_id + 1]
                    deferred == column.fFlags % 2 = 1
                IN /\ col.flags.isDeferred = deferred
                   /\ deferred => column.fFirstElementIndex # None
                   /\ col.flags.isSuppressed
                        = (deferred /\ column.fFirstElementIndex[1] < 0)
                   /\ ~deferred => ~col.flags.isSuppressed

\* column 0 is deferred with a negative index and attached as suppressed,
\* column 1 is deferred without an index
C13_Witness ==
    /\ error = "MalformedFlags"
    /\ NColumns = 2
    /\ MalformedColumns = {1}
    /\ column_descriptions[1].fFirstElementIndex = Some(-1)
    /\ \E fid \in DOMAIN nodes :
          /\ Len(nodes[fid].columns) = 1
          /\ nodes[fid].columns[1].flags.isSuppressed

NAliases == Len(alias_column_descriptions)

\* the alias columns with an id that does not resolve: a projected field id
\* absent from the tree, or a physical column id of no described column
UnresolvedAliases ==
    {a \in 1 .. NAliases :
       \/ alias_column_descriptions[a].fFieldID
             \notin Elems(BuildFieldIdMap(field_tree, nodes))
       \/ alias_column_descriptions[a].fPhysicalColumnID \notin 0 .. NColumns - 1}

\* C14: after column mapping succeeds every alias column attached to a node
\* has a projected field id that is a node of the tree and a physical column
\* id that is the id of a described column; when the columns themselves map
\* without error, an alias column with an id that does not resolve makes
\* mapping fail with StructuralInconsistency.
C14_AliasIdsResolve ==
    ColumnsRan
    => /\ ColumnsMapped
          => \A fid \in DOMAIN nodes :
                \A i \in 1 .. Len(nodes[fid].alias_columns) :
                   /\ fid \in Elems(field_id_to_node)
                   /\ nodes[fid].alias_columns[i].physical_column_id \in 0 .. NColumns - 1
       /\ (DanglingColumns = {} /\ MalformedColumns = {} /\ UnresolvedAliases # {})
          => error = "StructuralInconsistency" /\ stage = "map_columns_to_fields"

\* the errors of the index and the failures of render
IndexErrors ==
    {"OrderViolation", "StructuralInconsistency", "MalformedFlags", "UnsupportedLayout"}
RenderFailures ==
    {"OverlapViolation", "ImbalancedStack", "EventsOutOfOrder", "UnmatchedEvents"}

\* C15: no partial output on error: when tree construction, column mapping,
\* the envelope test or page mapping detects an error, get_field_to_page_map
\* ends with that error and returns nothing, also when nodes were already
\* filled; when render detects a failure it returns no profile and no event;
\* a value is returned only by a call that detected no error.
C15_NoPartialOutput ==
    /\ error \in IndexErrors \cup {"none"}
    /\ error # "none" => pc = "raised" /\ returned = "none"
    /\ pc = "raised" => error # "none"
    /\ returned # "none" => error = "none" /\ pc = "returned"
    /\ profile.status \in RenderFailures \cup {"ok", "none"}
    /\ profile.status \in RenderFailures => profile.events = << >>
    /\ profile.status = "ok"
       => /\ stack = << >>
          /\ ~OverlapInOrder(spans)
          /\ profile.events = RawEvents(spans)

\* page mapping fails at column 1 after the pages of column 0 were attached
C15_Witness ==
    /\ stage = "map_pages_to_columns_to_fields"
    /\ error = "StructuralInconsistency"
    /\ returned = "none"
    /\ NColumns = 2
    /\ \E fid \in DOMAIN nodes :
          \E i \in 1 .. Len(nodes[fid].columns) :
             nodes[fid].columns[i].cluster_info # << >>

\* the spans of instance inst as render orders them, and what render returns
\* for the fields b
RenderOf(b, endValue) == Render(b.stack, b.spans, endValue)

\* C16: two ProfileBulder instances share no state: after any interleaving
\* of calls on A and B, the frame table, spans, scope stack and interning
\* table of each instance are those of a builder that received that
\* instance's calls alone, so a call on one leaves the other's unchanged, and
\* what render returns for an instance is what it returns for that builder.
C16_NoSharedState ==
    \A inst \in Instances :
       /\ View(inst) = alone[inst]
       /\ rendered[inst].status # "none"
          => rendered[inst] = RenderOf(alone[inst], rendered[inst].endValue)

\* interleaved calls: the same pair is interned under different ids in A and
\* in B, and B has rendered its span
C16_Witness ==
    /\ <<"A", "None">> \in DOMAIN View("A").shared_frames
    /\ <<"A", "None">> \in DOMAIN View("B").shared_frames
    /\ View("A").shared_frames[<<"A", "None">>] # View("B").shared_frames[<<"A", "None">>]
    /\ rendered["B"].status = "ok"
    /\ Len(rendered["B"].events) = 2

\* C17: the Field hierarchy is an inverse pair: whatever rows were inserted,
\* a field's children are exactly the rows whose parent_id equals its id, the
\* parent of each of them is that field, a field is among the children of its
\* parent, and a field with a null parent_id has no parent.
C17_FieldHierarchy ==
    \A f \in field_table :
       /\ Field_children(f) = {g \in field_table : g.parent_id = Some(f.id)}
       /\ \A g \in Field_children(f) : Field_parent(g) = Some(f)
       /\ \A g \in field_table : Field_parent(g) = Some(f) => g \in Field_children(f)
       /\ f.parent_id = None => Field_parent(f) = None

\* the rows of the test: a root with a null parent_id and two children
C17_Witness ==
    /\ Cardinality(field_table) = 3
    /\ \E root \in field_table :
          /\ root.parent_id = None
          /\ Field_parent(root) = None
          /\ Cardinality(Field_children(root)) = 2
          /\ \A child \in Field_children(root) : Field_parent(child) = Some(root)

NonNegativeSizes == \A k \in 1 .. Len(spans) : spans[k].size >= 0

\* events i < j of ev open the frame at offset 'from' and close it at 'to'
OpenClosePair(ev, frame, from, to) ==
    \E i, j \in 1 .. Len(ev) :
       /\ i < j
       /\ ev[i] = Event("O", frame, from)
       /\ ev[j] = Event("C", frame, to)

\* C18: in a profile returned by render every span has an Open event for its
\* leaf frame (the last element of its stack) at span.offset and a later
\* Close event for that frame at span.offset + span.size.
C18_LeafOpenedAndClosed ==
    (profile.status = "ok" /\ NonNegativeSizes)
    => \A k \in 1 .. Len(spans) :
          OpenClosePair(profile.events, Last(spans[k].stack),
                        spans[k].offset, spans[k].offset + spans[k].size)

\* the state of render's loop after the first i spans in ascending offset order
AfterSpan(sp, i) == RenderLoop(RenderInit, SubSeq(SortedByOffset(sp), 1, i))

\* C19: in a render that returns a profile, after each span is processed the
\* open stack equals that span's recorded stack and the cursor equals
\* span.offset + span.size.
C19_OpenStackIsSpanStack ==
    (profile.status = "ok" /\ NonNegativeSizes)
    => \A i \in 1 .. Len(spans) :
          /\ AfterSpan(spans, i).stack = SortedByOffset(spans)[i].stack
          /\ AfterSpan(spans, i).last_span_end
                = SortedByOffset(spans)[i].offset + SortedByOffset(spans)[i].size

\* the gaps render records for the spans
Gaps(sp) == RenderLoop(RenderInit, SortedByOffset(sp)).gaps

\* C20: gaps are never events and never a failure: in a returned profile
\* every Open is at the offset of a recorded span and every Close at
\* offset + size of a recorded span, and render returns a profile whenever
\* the scope stack is empty, no size is negative and no span starts before
\* the end of the span before it, whatever gaps lie between the spans.
C20_GapsNotSurfaced ==
    /\ profile.status = "ok"
       => \A i \in 1 .. Len(profile.events) :
             \E k \in 1 .. Len(spans) :
                profile.events[i].at =
                   IF profile.events[i].type = "O" THEN spans[k].offset
                   ELSE spans[k].offset + spans[k].size
    /\ (Rendered /\ stack = << >> /\ NonNegativeSizes /\ ~OverlapInOrder(spans))
       => profile.status = "ok"

\* a gap between two spans: the first ends at 0, the second starts at 1
C20_Witness ==
    /\ profile.status = "ok"
    /\ Len(spans) = 2
    /\ Len(profile.events) = 4
    /\ Gaps(spans) = <<<<0, 1>>>>
    /\ \E k \in 1 .. 2 : spans[k].offset = 1 /\ spans[k].size > 0

(***************************************************************************)
(* add_span and the scope stack                                            *)
(***************************************************************************)
\* the id shared_frame_id(name, None) answers in the current state
LeafId(name) ==
    IF <<name, "None">> \in DOMAIN shared_frames
    THEN shared_frames[<<name, "None">>] ELSE Len(frames)

\* C21: add_span appends exactly one span, whose stack is the scope stack of
\* the moment followed by the shared frame id of (name, None), and leaves the
\* scope stack as it was; no call ever changes a span already recorded.
C21_SpanIsSnapshot ==
    [][/\ \A name \in Names, offset \in Offsets, size \in Sizes :
            add_span(name, offset, size) =>
              /\ spans' = Append(spans, [offset |-> offset, size |-> size,
                                         stack |-> Append(stack, LeafId(name))])
              /\ shared_frames'[<<name, "None">>] = LeafId(name)
              /\ stack' = stack
       /\ Len(spans') >= Len(spans)
       /\ \A k \in 1 .. Len(spans) : spans'[k] = spans[k]]_vars

\* a span recorded inside a scope, after the scope was left
C21_Witness ==
    /\ spans # << >>
    /\ Len(spans[1].stack) >= 2
    /\ stack # Front(spans[1].stack)
    /\ Len(spans) = 2

\* C22: render on a builder whose scope stack is not empty (more pushes than
\* pops) fails with ImbalancedStack and returns no profile; render on a
\* builder whose scope stack is empty never fails for that reason, neither at
\* the first assertion nor at the count of Open and Close events.
C22_ImbalancedStack ==
    Rendered =>
      /\ stack # << >> => profile = [status |-> "ImbalancedStack",
                                      events |-> << >>, endValue |-> 0]
      /\ stack = << >> => profile.status \notin {"ImbalancedStack", "UnmatchedEvents"}

\* render called inside two scopes, with spans that would render
C22_Witness ==
    /\ profile.status = "ImbalancedStack"
    /\ Len(stack) = 2
    /\ Len(spans) = 2
    /\ Render(<< >>, spans, 0).status = "ok"

(***************************************************************************)
(* The shape of the field tree and what the later stages do to it          *)
(***************************************************************************)
TreeBuilt == stage # "none" /\ error # "OrderViolation"

StrictlyAscending(s) == \A i \in 1 .. Len(s) - 1 : s[i] < s[i + 1]

\* C23: in the tree get_field_tree returns the roots are exactly the fields
\* whose parent id is their own index; every other field is in the child
\* collection of its parent's node and of no other node; roots and children
\* are enumerated in ascending field-id order.
C23_TreeShape ==
    TreeBuilt =>
      /\ DOMAIN nodes = 0 .. NFields - 1
      /\ Elems(field_tree) = {i \in 0 .. NFields - 1 : Parent(i) = i}
      /\ StrictlyAscending(field_tree)
      /\ \A p \in DOMAIN nodes :
            /\ StrictlyAscending(nodes[p].children)
            /\ Elems(nodes[p].children) =
                  {i \in 0 .. NFields - 1 : Parent(i) = p /\ i # p}

\* a root followed by two children of it
C23_Witness ==
    /\ TreeBuilt
    /\ NFields = 3
    /\ field_tree = <<0>>
    /\ nodes[0].children = <<1, 2>>

\* column descriptor d2 is d with, at most, page information attached
SameColumn(d, d2) ==
    d2.column_id = d.column_id /\ d2.flags = d.flags

Reorderings(sp) ==
    {[i \in 1 .. Len(sp) |-> sp[p[i]]] : p \in Permutations(1 .. Len(sp))}

\* two renders both fail or return the same event list
SameOutcome(a, b) ==
    \/ a.status # "ok" /\ b.status # "ok"
    \/ a.status = "ok" /\ b.status = "ok" /\ a.events = b.events

DistinctOffsets(sp) ==
    \A i, j \in 1 .. Len(sp) : i # j => sp[i].offset # sp[j].offset

\* C26 as stated: two builders holding the same spans, recorded in different
\* orders, both fail at render or return the same event list, also when spans
\* have size zero or equal offsets.
C26_OrderIndependent ==
    \A sp2 \in Reorderings(spans), e \in EndValues :
        SameOutcome(Render(<< >>, spans, e), Render(<< >>, sp2, e))

\* C26 (amended): the same for spans with pairwise distinct offsets; the two
\* renders then agree in everything they return.
C26_OrderIndependentDistinct ==
    DistinctOffsets(spans) =>
      \A sp2 \in Reorderings(spans), e \in EndValues :
          /\ SameOutcome(Render(<< >>, spans, e), Render(<< >>, sp2, e))
          /\ Render(<< >>, spans, e) = Render(<< >>, sp2, e)

\* a zero-size span and a later one recorded in descending offset order and
\* rendered
C26_Witness ==
    /\ profile.status = "ok"
    /\ Len(spans) = 2
    /\ spans[1].offset > spans[2].offset
    /\ spans[2].size = 0
    /\ spans[1].stack # spans[2].stack

(***************************************************************************)
(* The offsets of the events and endValue                                  *)
(***************************************************************************)
\* the largest offset + size of a span, 0 when there is none
RECURSIVE MaxEnd(_)
MaxEnd(sp) ==
    IF sp = << >> THEN 0
    ELSE Max2(Last(sp).offset + Last(sp).size, MaxEnd(Front(sp)))

\* C27 as stated: every event of a profile returned by render(endValue) has
\* 0 <= at <= endValue, for any spans and any endValue.
C27_EventsWithinEndValue ==
    profile.status = "ok" =>
      \A i \in 1 .. Len(profile.events) :
          0 <= profile.events[i].at /\ profile.events[i].at <= profile.endValue

\* C27 (amended): every event of a returned profile has 0 <= at, and at is
\* at most the largest end of a recorded span; so at <= endValue whenever
\* endValue is not smaller than the end of every span.
C27_EventsWithinSpans ==
    profile.status = "ok" =>
      \A i \in 1 .. Len(profile.events) :
          /\ 0 <= profile.events[i].at
          /\ profile.events[i].at <= MaxEnd(spans)
          /\ profile.endValue >= MaxEnd(spans)
               => profile.events[i].at <= profile.endValue

\* a profile whose last event is at endValue itself
C27_Witness ==
    /\ profile.status = "ok"
    /\ spans # << >>
    /\ profile.endValue = MaxEnd(spans)
    /\ Last(profile.events).at = profile.endValue
    /\ profile.endValue > 0

(***************************************************************************)
(* What get_field_to_page_map returns                                      *)
(***************************************************************************)
\* the alias columns whose projected field id is absent from the tree
DanglingAliases ==
    {a \in 1 .. NAliases :
       alias_column_descriptions[a].fFieldID
          \notin Elems(BuildFieldIdMap(field_tree, nodes))}

\* tree construction and column mapping ran and found no error
ColumnsSucceeded ==
    /\ ColumnsRan
    /\ BadFields = {}
    /\ MalformedColumns = {} /\ DanglingColumns = {} /\ DanglingAliases = {}

\* C28: with no page-list envelope the call returns an empty map, and does so
\* exactly when tree construction and column mapping succeeded (otherwise it
\* ends with their error); the map returned with one envelope is flat and its
\* keys are exactly the field ids 0..N-1.
C28_ReturnedMaps ==
    /\ Len(pagelist_envelopes) = 0 =>
          /\ Ended => (returned = "empty" <=> ColumnsSucceeded)
          /\ Ended /\ ~ColumnsSucceeded =>
                returned = "none" /\ error \in IndexErrors \ {"UnsupportedLayout"}
          /\ stage = "get_field_to_page_map" => returned = "empty" /\ error = "none"
          /\ ~PagesRan
    /\ returned = "empty" => Len(pagelist_envelopes) = 0
    /\ returned = "field_column_tree" =>
          /\ Len(pagelist_envelopes) = 1
          /\ Len(field_id_to_node) = NFields
          /\ Elems(field_id_to_node) = 0 .. NFields - 1
          /\ DOMAIN nodes = 0 .. NFields - 1

\* an empty map returned for a tree of three fields with a mapped column
C28_Witness ==
    /\ returned = "empty"
    /\ NFields = 3
    /\ Len(field_tree) < 3
    /\ \E f \in DOMAIN nodes : nodes[f].columns # << >>

(***************************************************************************)
(* The order of validation                                                 *)
(***************************************************************************)
\* the described columns that no cluster of the envelope lists
UnlistedColumns ==
    {c \in 0 .. NColumns - 1 :
       \A k \in 1 .. Len(pagelist_envelopes[1].pageLocations) :
          c >= Len(pagelist_envelopes[1].pageLocations[k])}

\* the error of the first check that fails, taking the checks in the order
\* tree, columns by ascending id (flags, then field id), alias columns,
\* number of envelopes, pages; "none" when no check that ran so far fails
FirstFailure ==
    IF stage = "none" THEN "none"
    ELSE IF BadFields # {} THEN "OrderViolation"
    ELSE IF ~ColumnsRan THEN "none"
    ELSE IF MalformedColumns \cup DanglingColumns # {}
    THEN IF Min(MalformedColumns \cup DanglingColumns) \in MalformedColumns
         THEN "MalformedFlags" ELSE "StructuralInconsistency"
    ELSE IF DanglingAliases # {} THEN "StructuralInconsistency"
    ELSE IF stage = "map_columns_to_fields" THEN "none"
    ELSE IF Len(pagelist_envelopes) > 1 THEN "UnsupportedLayout"
    ELSE IF PagesRan /\ UnlistedColumns # {} THEN "StructuralInconsistency"
    ELSE "none"

\* the stages follow one another in the order of the source
StageOrder ==
    <<stage, stage'>> \in
       {<<"none", "get_field_tree">>,
        <<"get_field_tree", "map_columns_to_fields">>,
        <<"map_columns_to_fields", "get_field_to_page_map">>,
        <<"get_field_to_page_map", "map_pages_to_columns_to_fields">>}

\* C29: validation runs in a fixed order and the first failure decides the
\* error: tree construction, then the columns in ascending id (a column's
\* flags before its field id), then the alias columns, then the number of
\* envelopes, then page attachment. A dangling reference together with
\* several envelopes is reported as StructuralInconsistency, a column with
\* malformed flags and a dangling field id as MalformedFlags.
C29_ValidationOrder ==
    [][/\ StageOrder
       /\ error = "none"
       /\ error' = FirstFailure'
       /\ error' # "none" <=> pc' = "raised"]_vars

\* one column with malformed flags and a dangling field id, two envelopes
C29_Witness ==
    /\ error = "MalformedFlags"
    /\ Len(pagelist_envelopes) = 2
    /\ MalformedColumns \cap DanglingColumns # {}
    /\ Min(MalformedColumns \cup DanglingColumns) \in DanglingColumns

(***************************************************************************)
(* The layout walk, checked under SpecWalk                                 *)
(***************************************************************************)
\* S with the children of its non-projected members, n times over
RECURSIVE WithDescendants(_, _, _)
WithDescendants(fds, S, n) ==
    IF n = 0 THEN S
    ELSE WithDescendants(
           fds,
           S \cup {c \in 0 .. Len(fds) - 1 :
                     \E p \in S : /\ ~Projected(fds[p + 1])
                                   /\ fds[c + 1].fParentFieldID = p},
           n - 1)

\* the fields reachable from a root through non-projected ancestors
Reachable ==
    WithDescendants(fieldDescriptions,
                    {f \in 0 .. Len(fieldDescriptions) - 1 :
                       fieldDescriptions[f + 1].fParentFieldID = f},
                    Len(fieldDescriptions))

Calls(f) == Cardinality({i \in 1 .. Len(descended) : descended[i] = f})

\* what holds of the walk in every state
WalkVisitsOnce ==
    /\ \A f \in 0 .. Len(fieldDescriptions) - 1 :
          /\ Calls(f) <= 1
          /\ Calls(f) = 1 => f \in Reachable
          /\ lpc \in {"close", "render", "done"} /\ f \in Reachable => Calls(f) = 1
    /\ lpc = "walk" /\ callstack = << >> => Len(builder.stack) = 2
    /\ lpc \in {"render", "done"} => builder.stack = << >>
    /\ lpc = "done" => out.status # "ImbalancedStack"

\* what holds of every step of descend: a return leaves the scope stack the
\* call found, a return at the flag test leaves the whole builder, and an
\* iteration over a column leaves the scope stack
WalkStackNeutral ==
    /\ Len(callstack') < Len(callstack) =>
          /\ builder'.stack = Top.entry
          /\ Top.at = "enter" => builder' = builder
    /\ (callstack # << >> /\ Len(callstack') = Len(callstack) /\ Top.at = "body")
          => builder'.stack = builder.stack

\* C30: descend terminates and is stack-neutral for every parent-id array,
\* forward references and parent cycles included: each call returns with the
\* scope stack it found, a projected field pushes nothing and its subtree is
\* skipped, each field reachable from a root through non-projected ancestors
\* is visited exactly once and no other field is visited, and after the
\* walk and the closing pops of read the scope stack is empty at render.
C30_WalkTerminatesNeutral ==
    /\ [][WalkStackNeutral /\ WalkVisitsOnce']_vars
    /\ <>(lpc = "render")

\* a walk over a forward reference (field 0 is a child of the root 1) that
\* added a span and ended
C30_Witness ==
    /\ lpc = "done"
    /\ descended = <<1, 0, 2>>
    /\ fieldDescriptions[3].fParentFieldID = 0
    /\ builder.spans # << >>
    /\ builder.stack = << >>

(***************************************************************************)
(* Shared pages, checked under SpecPages                                   *)
(***************************************************************************)
Collected == lpc \notin {"read", "pages"}

PageOf(claim) == <<claim.offset, claim.size>>
PageInCluster(claim) == <<claim.offset, claim.size, claim.cluster>>

\* the positions in the claims ac whose (offset, size) no earlier claim has
FirstClaims(ac) ==
    {i \in 1 .. Len(ac) : \A j \in 1 .. i - 1 : PageOf(ac[j]) # PageOf(ac[i])}

\* the first claims made by column c, in iteration order from position i on
RECURSIVE FirstClaimsOf(_, _, _, _)
FirstClaimsOf(ac, firsts, c, i) ==
    IF i > Len(ac) THEN << >>
    ELSE (IF i \in firsts /\ ac[i].column = c
          THEN <<[cluster |-> ac[i].cluster, offset |-> ac[i].offset,
                  size |-> ac[i].size]>>
          ELSE << >>) \o FirstClaimsOf(ac, firsts, c, i + 1)

\* no two different (offset, size) of the claims ac share a byte
OnlySharedPagesCollide(ac) ==
    \A i, j \in 1 .. Len(ac) :
       PageOf(ac[i]) # PageOf(ac[j]) => ~RangesOverlap(ac[i], ac[j])

\* C25: a page whose (offset, size) an earlier (cluster, column) pair has is
\* no error: the collection goes on, page2column records the page under
\* every column that claims it, and columnPages gives it to the first
\* (cluster, column) pair in iteration order only; so the walk adds at most
\* one span per (offset, size), and when the only colliding pages are shared
\* ones render does not fail with OverlapViolation.
C25_SharedPages ==
    LET ac == Claims(pagelistEnvelopes)
        firsts == FirstClaims(ac)
    IN /\ Collected =>
             /\ DOMAIN page2column = {PageInCluster(ac[i]) : i \in 1 .. Len(ac)}
             /\ \A key \in DOMAIN page2column :
                   page2column[key] =
                     {ac[i].column :
                        i \in {j \in 1 .. Len(ac) : PageInCluster(ac[j]) = key}}
             /\ DOMAIN columnPages = {ac[i].column : i \in firsts}
             /\ \A c \in DOMAIN columnPages :
                   columnPages[c] = FirstClaimsOf(ac, firsts, c, 1)
       /\ \A i, j \in 1 .. Len(builder.spans) :
             i # j => PageOf(builder.spans[i]) # PageOf(builder.spans[j])
       /\ \A i \in 1 .. Len(builder.spans) :
             \E k \in firsts : PageOf(ac[k]) = PageOf(builder.spans[i])
       /\ (lpc = "done" /\ OnlySharedPagesCollide(ac)) => out.status # "OverlapViolation"

\* a page claimed by two columns of one cluster and again in the next
\* cluster, beside a second page, walked and rendered
C25_Witness ==
    /\ lpc = "done"
    /\ out.status = "ok"
    /\ Len(builder.spans) = 2
    /\ \E key \in DOMAIN page2column : Cardinality(page2column[key]) = 2
    /\ Len(Claims(pagelistEnvelopes)) = 4
    /\ Cardinality(FirstClaims(Claims(pagelistEnvelopes))) = 2
    /\ Cardinality(DOMAIN page2column) = 3

====
